---- MODULE Spec2Model ----
(***************************************************************************)
(* Model of WalletStorage (wallet-client/src/WalletStorage.js): the        *)
(* encrypted wallet container, its reconciliation with one backup server   *)
(* and its subscriber notification.                                        *)
(*                                                                         *)
(* JavaScript is single threaded: one action of this model is one run of   *)
(* the event loop from a public call or from the completion of an          *)
(* asynchronous operation (encrypt, decrypt, a transport RPC, a socket     *)
(* close) up to the next such operation, the promise reactions in between  *)
(* included.  A pending asynchronous operation is a task; its promise      *)
(* chain is the task's stack of frames.                                    *)
(***************************************************************************)
EXTENDS Integers, Sequences, FiniteSets, TLC

(***************************************************************************)
(* Bounds                                                                  *)
(***************************************************************************)
MaxOps == 2       \* public API calls in one behaviour
MaxOpsConflict == 3 \* the same, in the behaviours that start from a diverged copy
MaxOpsLogin == 3   \* the same, in the behaviours of login and logout
MaxOpsEdit == 3    \* the same, in the behaviours of one login and two edits
MaxEnv == 1       \* changes made to the server copy by another device
MaxTime == 1      \* clock readings 0..MaxTime
MaxTasks == 2     \* asynchronous operations pending at once

(***************************************************************************)
(* Values                                                                  *)
(***************************************************************************)
None == <<>>
Some(x) == <<x>>
Val(o) == o[1]

null == "null"              \* JavaScript null in a string-valued place
undefined == "undefined"    \* JavaScript undefined in a string-valued place

\* credentials the user may type
Creds == { [email |-> "a@x", username |-> "alice", password |-> "pw"],
           [email |-> " A@X ", username |-> "alice", password |-> "pw2"],
           [email |-> " ", username |-> "alice", password |-> "pw"] }
Chains == {"chainA", "chainB"}
Tokens == {"tok"}
Urls == {"ws://backup"}
Nonces == {0, 1}
Callbacks == {"cb1"}

\* String.prototype.trim and toLowerCase on the strings above
trim(str) == CASE str = " A@X " -> "A@X"
               [] str = " " -> ""
               [] OTHER -> str
toLowerCase(str) == CASE str = "A@X" -> "a@x"
                      [] OTHER -> str

(***************************************************************************)
(* Crypto contract (@graphene/ecc, ./Backup)                               *)
(***************************************************************************)
NoKey == <<>>
fromSeed(seed) == <<"priv", seed>>
toPublicKey(private_key) == <<"pub", private_key[2]>>
toWif(private_key) == <<"wif", private_key[2]>>
Seed(email, username, password) ==
    <<toLowerCase(trim(email)), toLowerCase(trim(username)), password>>

\* encrypt draws a one-time key: n is that draw
encrypt(wallet_object, public_key, n) == [to |-> public_key, json |-> wallet_object, n |-> n]
CanDecrypt(encrypted_data, private_key) ==
    private_key # NoKey /\ encrypted_data.to = toPublicKey(private_key)
decrypt(encrypted_data, private_key) == encrypted_data.json
sha256(buffer) == <<"sha256", buffer>>
signBufferSha256(buffer, private_key) == <<"sig", buffer, private_key>>
SignerOf(signature) == toPublicKey(signature[3])

\* Buffer <-> base64 string
toString64(buffer) == <<"base64", buffer>>
Buffer64(str) == str[2]
isBuffer(data) == data # None /\ data[1] # "base64"

\* toBase64: null stays null, a Buffer is encoded, a string is kept
toBase64(data) == IF data = None THEN None
                  ELSE IF isBuffer(data) THEN toString64(data) ELSE data

(***************************************************************************)
(* Wallet object: an Immutable.Map from field names to JSON values         *)
(***************************************************************************)
EmptyMap == [f \in {} |-> 0]
isEmpty(m) == DOMAIN m = {}
has(m, f) == f \in DOMAIN m
\* Map.merge: the keys of b overwrite those of a
merge(a, b) == [f \in DOMAIN a \cup DOMAIN b |-> IF f \in DOMAIN b THEN b[f] ELSE a[f]]
\* Map.mergeDeep: maps under the same key merge recursively, anything else
\* is overwritten; "m" is the one map-valued field of the wallets modelled
mergeDeep(a, b) ==
    [f \in DOMAIN a \cup DOMAIN b |->
        IF f \notin DOMAIN b THEN a[f]
        ELSE IF f = "m" /\ f \in DOMAIN a THEN merge(a[f], b[f])
        ELSE b[f]]
\* Map.get on a string-valued field
getStr(m, f) == IF f \in DOMAIN m THEN m[f] ELSE undefined

(***************************************************************************)
(* Storage state (LocalStoragePersistence): every field is None or Some    *)
(***************************************************************************)
StorageFields == {"encrypted_wallet", "remote_url", "remote_copy", "remote_token",
                  "remote_hash", "remote_created_date", "remote_updated_date",
                  "remote_updated"}
EmptyStorage == [f \in StorageFields |-> None]
\* storage.setState(partial): merge-overwrite; an undefined (None) value
\* deletes the field
setStorage(state, partial) == merge(state, partial)
\* a remote_token that is neither undefined nor null
hasToken(token) == token # None /\ Val(token) # null

(***************************************************************************)
(* Backup server and transport (WalletWebSocket, WalletApi, the server)    *)
(***************************************************************************)
PrivKeys == { fromSeed(Seed(c.email, c.username, c.password)) : c \in Creds }
PubKeys == { toPublicKey(k) : k \in PrivKeys }
NoStatus == "none"
EmptyServer == [p \in PubKeys |-> None]
NoResp == [statusText |-> NoStatus, ok |-> TRUE, local_hash |-> None,
           encrypted_data |-> None, created |-> None, updated |-> None]

\* the record the server sends for its copy w: all of it on a change
ServerRecord(w, statusText) ==
    IF w = None THEN [NoResp EXCEPT !.statusText = statusText]
    ELSE [NoResp EXCEPT !.statusText = statusText,
            !.local_hash = Some(toString64(sha256(Val(w).encrypted_data))),
            !.encrypted_data = Some(toString64(Val(w).encrypted_data)),
            !.created = Some(Val(w).created), !.updated = Some(Val(w).updated)]

\* fetchWallet(public_key, local_hash): the initial answer of a subscription
fetchWalletRPC(srv, public_key, local_hash) ==
    LET w == srv[public_key] IN
    IF w = None THEN ServerRecord(None, "No Content")
    ELSE IF local_hash # None /\ sha256(Val(w).encrypted_data) = local_hash
         THEN [ServerRecord(w, "Not Modified") EXCEPT !.encrypted_data = None]
    ELSE ServerRecord(w, "OK")

\* createWallet(code, encrypted_data, signature): <<server', response>>
createWalletRPC(srv, code, encrypted_data, signature, time) ==
    LET public_key == SignerOf(signature) IN
    IF code \in Tokens /\ srv[public_key] = None
    THEN << [srv EXCEPT ![public_key] =
                Some([encrypted_data |-> encrypted_data, created |-> time, updated |-> time])],
            [NoResp EXCEPT !.statusText = "OK",
                !.local_hash = Some(toString64(sha256(encrypted_data))),
                !.created = Some(time)] >>
    ELSE << srv, [NoResp EXCEPT !.ok = FALSE] >>

\* saveWallet(original_local_hash, encrypted_data, signature)
saveWalletRPC(srv, original_local_hash, encrypted_data, signature, time) ==
    LET public_key == SignerOf(signature)
        w == srv[public_key] IN
    IF w # None /\ sha256(Val(w).encrypted_data) = original_local_hash
    THEN << [srv EXCEPT ![public_key] =
                Some([Val(w) EXCEPT !.encrypted_data = encrypted_data, !.updated = time])],
            [NoResp EXCEPT !.statusText = "OK",
                !.local_hash = Some(toString64(sha256(encrypted_data))),
                !.updated = Some(time)] >>
    ELSE << srv, [NoResp EXCEPT !.statusText = "Conflict"] >>

\* deleteWallet(local_hash, signature)
deleteWalletRPC(srv, local_hash, signature) ==
    LET public_key == SignerOf(signature)
        w == srv[public_key] IN
    IF w # None /\ sha256(Val(w).encrypted_data) = local_hash
    THEN << [srv EXCEPT ![public_key] = None], [NoResp EXCEPT !.statusText = "OK"] >>
    ELSE << srv, [NoResp EXCEPT !.ok = FALSE] >>

(***************************************************************************)
(* State                                                                   *)
(***************************************************************************)
VARIABLES
    storage,        \* this.storage.state
    wallet_object,  \* this.wallet_object
    private_key,    \* this.private_key
    remote_status,  \* this.remote_status
    local_status,   \* this.local_status
    notify,         \* this.notify
    subscribers,    \* this.subscribers
    api,            \* this.ws_rpc / this.api are set
    ws_subs,        \* private keys whose fetchWallet subscription is on this.ws_rpc
    server,         \* the server's copy for every public key
    tasks,          \* pending asynchronous operations
    now,            \* the clock
    nops,           \* public calls still to be made
    nenv,           \* changes made by another device
    last,           \* the step just taken: its outcome and what it sent
    declared        \* history: a Conflict was declared, and neither the user nor
                    \* another device has changed a copy since
vars == <<storage, wallet_object, private_key, remote_status, local_status, notify,
          subscribers, api, ws_subs, server, tasks, now, nops, nenv, last, declared>>

Slots == 1..MaxTasks
NoTask == [op |-> "none"]
NoLast == [op |-> "none", status |-> "none", err |-> "", sent |-> <<>>,
           fired |-> 0, nfired |-> 0, ret |-> None, pc |-> "", slot |-> 0, alone |-> TRUE]

\* the program state as one record, with the scratch of the running step:
\* cur the running task, out its promise state, sent the requests it issued
St == [storage |-> storage, wallet_object |-> wallet_object, private_key |-> private_key,
       remote_status |-> remote_status, local_status |-> local_status, notify |-> notify,
       subscribers |-> subscribers, api |-> api, ws_subs |-> ws_subs, server |-> server,
       tasks |-> tasks, now |-> now,
       cur |-> NoTask, out |-> "ok", err |-> "", promise |-> FALSE, sent |-> <<>>,
       fired |-> 0, invoked |-> <<>>, ret |-> None]

NewTask(op, key, slot) ==
    [op |-> op, pc |-> "", stack |-> <<>>, key |-> key, data |-> None, resp |-> NoResp,
     chain_id |-> null, nfired |-> 0, slot |-> slot, alone |-> TRUE, notify |-> FALSE]

Await(s, pc, data) == [s EXCEPT !.out = "await", !.cur.pc = pc, !.cur.data = data]
Throw(s, e) == [s EXCEPT !.out = "fail", !.err = e]
Reject(s, e) == [s EXCEPT !.out = "fail", !.err = e, !.promise = TRUE]
\* r is the call of a function from state s: the promise it returned gets the
\* reactions `frames'; nothing is attached when the call threw
With(s, r, frames) ==
    IF r.out = "fail" /\ ~ r.promise THEN r
    ELSE [r EXCEPT !.cur.stack =
            SubSeq(@, 1, Len(@) - Len(s.cur.stack)) \o frames \o s.cur.stack]

(***************************************************************************)
(* Semi-private functions                                                  *)
(***************************************************************************)
\* function localHash()
localHash(s) ==
    IF s.storage.encrypted_wallet = None THEN None
    ELSE sha256(Buffer64(Val(s.storage.encrypted_wallet)))

\* what the subscriber callbacks do when invoked: cb1 subscribes cb2
During(callback) == IF callback = "cb1" THEN {"cb2"} ELSE {}
Registered(subs) == UNION { During(callback) : callback \in subs }

\* variant: the loop also reaches the callbacks subscribed while it runs
forEach_Live(subs) == [callback \in subs \cup Registered(subs) |-> 1]
\* this.subscribers.forEach(...): how often each callback is invoked; the
\* loop runs over the map this.subscribers named when it began, and
\* subscribe() assigns a new map
forEach(subs) == [callback \in subs |-> 1]

\* function notifySubscribers()
notifySubscribers(s) ==
    IF ~ s.notify THEN s
    ELSE [s EXCEPT !.notify = FALSE, !.fired = @ + 1,
                   !.invoked = Append(@, forEach(s.subscribers)),
                   !.subscribers = @ \cup Registered(@)]


\* the requests of this step reach the server at once; the answer waits in
\* the task until the event loop delivers it
Sent(s, name, arg, rpc) ==
    [s EXCEPT !.server = rpc[1], !.cur.resp = rpc[2],
              !.sent = Append(@, [name |-> name, arg |-> arg])]

\* function deleteRemoteWallet(private_key, hash = this.localHash())
deleteRemoteWallet(s, key, hash0) ==
    IF hash0 = None THEN Throw(s, "TypeError")      \* new Buffer(undefined, "base64")
    ELSE IF ~ s.api THEN Throw(s, "TypeError")      \* this.api is null
    ELSE LET hash == IF isBuffer(hash0) THEN hash0 ELSE Buffer64(hash0)
             signature == signBufferSha256(hash, key)
         IN Await(Sent(s, "deleteWallet", hash, deleteWalletRPC(s.server, hash, signature)),
                  "deleteWallet", None)

\* variant: the record of the server's copy survives its deletion
deleteWalletThen_KeepHash(s) ==
    IF ~ s.cur.resp.ok THEN Throw(s, "transport_error")
    ELSE [s EXCEPT !.out = "ok", !.notify = TRUE]
\* deleteWallet(...).then(()=> {...}) in deleteRemoteWallet
deleteWalletThen(s) ==
    IF ~ s.cur.resp.ok THEN Throw(s, "transport_error")
    ELSE [s EXCEPT !.out = "ok", !.notify = TRUE,
            !.storage = setStorage(@, [remote_hash |-> None, remote_created_date |-> None,
                                       remote_updated_date |-> None])]

\* function saveServerWallet(server_wallet, private_key)
saveServerWallet(s, server_wallet, key) ==
    IF server_wallet.encrypted_data = None THEN Throw(s, "TypeError")
    ELSE Await(s, "decrypt", [server_wallet |-> server_wallet, key |-> key])

\* variant: the pull keeps the hash recorded before it
saveServerWalletThen_KeepHash(s) ==
    LET server_wallet == s.cur.data.server_wallet
        backup_buffer == Buffer64(Val(server_wallet.encrypted_data))
        key == s.cur.data.key
    IN IF ~ CanDecrypt(backup_buffer, key) THEN Throw(s, "invalid_password")
       ELSE [s EXCEPT !.out = "ok",
                !.storage = setStorage(@, [remote_token |-> Some(null),
                                encrypted_wallet |-> server_wallet.encrypted_data]),
                !.wallet_object = decrypt(backup_buffer, key),
                !.local_status = null,
                !.notify = TRUE]
\* decrypt(backup_buffer, private_key).then( wallet_object => {...}) in saveServerWallet
saveServerWalletThen(s) ==
    LET server_wallet == s.cur.data.server_wallet
        backup_buffer == Buffer64(Val(server_wallet.encrypted_data))
        key == s.cur.data.key
    IN IF ~ CanDecrypt(backup_buffer, key) THEN Throw(s, "invalid_password")
       ELSE [s EXCEPT !.out = "ok",
                !.storage = setStorage(@, [remote_token |-> Some(null),
                                remote_hash |-> server_wallet.local_hash,
                                encrypted_wallet |-> server_wallet.encrypted_data,
                                remote_updated_date |-> server_wallet.updated,
                                remote_created_date |-> server_wallet.created]),
                !.wallet_object = decrypt(backup_buffer, key),
                !.local_status = null,
                !.notify = TRUE]

\* variant: the ciphertext holds an empty tree instead of wallet_object
updateWallet_Empty(s, key) ==
    IF key = NoKey THEN Throw(s, "Wallet is locked")
    ELSE Await(s, "encrypt", [key |-> key, remote_copy |-> s.storage.remote_copy,
                              code |-> s.storage.remote_token,
                              json |-> EmptyMap])
\* function updateWallet(private_key = this.private_key), up to encrypt
updateWallet(s, key) ==
    IF key = NoKey THEN Throw(s, "Wallet is locked")
    ELSE Await(s, "encrypt", [key |-> key, remote_copy |-> s.storage.remote_copy,
                              code |-> s.storage.remote_token,
                              json |-> s.wallet_object])

\* encrypt(this.wallet_object, public_key).then( encrypted_data => {...}) in updateWallet
updateWalletThen(s, n) ==
    LET d == s.cur.data
        key == d.key
        encrypted_data == encrypt(d.json, toPublicKey(key), n)
        s1 == [s EXCEPT !.out = "ok",
                 !.storage = setStorage(@, [encrypted_wallet |-> Some(toString64(encrypted_data))]),
                 !.local_status = null,
                 !.notify = TRUE]
        local_hash_buffer == sha256(encrypted_data)
        local_hash == toString64(local_hash_buffer)
        signature == signBufferSha256(local_hash_buffer, key)
        remote_hash == s1.storage.remote_hash
    IN IF ~ s.api \/ d.remote_copy # Some(TRUE) THEN s1
       ELSE IF ~ hasToken(d.code) /\ s.remote_status = "No Content" THEN s1
       ELSE IF hasToken(d.code) /\ remote_hash = None
       THEN IF s.remote_status # "No Content" THEN Throw(s1, "AssertionError remote_status")
            ELSE Await(Sent(s1, "createWallet", encrypted_data,
                            createWalletRPC(s.server, Val(d.code), encrypted_data, signature, s.now)),
                       "createWallet", [local_hash |-> local_hash])
       ELSE IF remote_hash = None THEN Throw(s1, "AssertionError remote_hash")
       ELSE IF s.remote_status \notin {"OK", "Not Modified"}
            THEN Throw(s1, "AssertionError remote_status")
       ELSE Await(Sent(s1, "saveWallet", encrypted_data,
                       saveWalletRPC(s.server, Buffer64(Val(remote_hash)), encrypted_data,
                                     signature, s.now)),
                  "saveWallet", [local_hash |-> local_hash])

\* createWallet(...).then( json => {...}) in updateWallet
createWalletThen(s) ==
    LET json == s.cur.resp
        local_hash == s.cur.data.local_hash
    IN IF ~ json.ok THEN Throw(s, "transport_error")
       ELSE IF json.local_hash # Some(local_hash) \/ json.created = None
            THEN Throw(s, "AssertionError local_hash")
       ELSE [s EXCEPT !.out = "ok",
                !.storage = setStorage(@, [remote_token |-> Some(null),
                                remote_hash |-> Some(local_hash),
                                remote_created_date |-> json.created,
                                remote_updated_date |-> json.created]),
                !.remote_status = "Not Modified",
                !.notify = TRUE]


\* variant: the status of a refused upload is not recorded
refused_KeepStatus(s, statusText) == [s EXCEPT !.notify = TRUE]
\* this.notify = true; this.remote_status = json.statusText, before the throw
refused(s, statusText) == [s EXCEPT !.notify = TRUE, !.remote_status = statusText]

\* variant: the answer to saveWallet is not recorded
saveWalletThen_NoHash(s) ==
    LET json == s.cur.resp
    IN IF ~ json.ok THEN Throw(s, "transport_error")
       ELSE IF json.statusText = "OK"
       THEN [s EXCEPT !.out = "ok", !.remote_status = "Not Modified", !.notify = TRUE]
       ELSE Throw(refused(s, json.statusText), "saveWallet " \o json.statusText)
\* saveWallet(...).then( json => {...}) in updateWallet
saveWalletThen(s) ==
    LET json == s.cur.resp
        local_hash == s.cur.data.local_hash
    IN IF ~ json.ok THEN Throw(s, "transport_error")
       ELSE IF json.statusText = "OK"
       THEN IF json.local_hash # Some(local_hash) \/ json.updated = None
            THEN Throw(s, "AssertionError local_hash")
            ELSE [s EXCEPT !.out = "ok",
                    !.storage = setStorage(@, [remote_hash |-> Some(local_hash),
                                               remote_updated_date |-> json.updated]),
                    !.remote_status = "Not Modified",
                    !.notify = TRUE]
       ELSE Throw(refused(s, json.statusText), "saveWallet " \o json.statusText)

\* let local_mod = local_hash !== old_hash
local_mod(local_hash, old_hash) == local_hash # old_hash
\* variant: a change of the server copy goes unnoticed
server_mod_Never(old_hash, new_hash) == FALSE
\* let server_mod = old_hash !== new_hash
server_mod(old_hash, new_hash) == old_hash # new_hash

\* function fetchWallet(server_wallet, private_key)
fetchWallet(s, server_wallet0, key) ==
    LET has_local == s.storage.encrypted_wallet # None
        local_hash == IF has_local THEN Some(toString64(localHash(s))) ELSE None
        old_hash == s.storage.remote_hash
        new_hash == server_wallet0.local_hash
        has_remote == new_hash # None
        statusText == IF server_wallet0.statusText # NoStatus THEN server_wallet0.statusText
                      ELSE IF ~ has_remote THEN "No Content"
                      ELSE IF local_hash = new_hash THEN "Not Modified" ELSE "OK"
        server_wallet == [server_wallet0 EXCEPT !.statusText = statusText]
        s1 == [s EXCEPT !.storage = setStorage(@, [remote_hash |-> new_hash])]
        s2 == IF s1.remote_status # statusText
              THEN [s1 EXCEPT !.remote_status = statusText, !.notify = TRUE] ELSE s1
        s3 == [s2 EXCEPT !.notify = TRUE]
    IN IF statusText \notin {"OK", "No Content", "Not Modified"}
            THEN Throw(s1, "AssertionError Invalid status")
       ELSE IF has_remote /\ s2.storage.remote_copy = Some(FALSE)
            THEN deleteRemoteWallet(s3, key, Val(new_hash))
       ELSE IF ~ has_remote /\ ~ has_local
            THEN IF statusText # "No Content" THEN Throw(s2, "AssertionError") ELSE s2
       ELSE IF ~ has_remote
            THEN With(s3, updateWallet(s3, key), <<"NotModified">>)
       ELSE IF ~ has_local
            THEN With(s3, saveServerWallet(s3, server_wallet, key), <<"NotModified">>)
       ELSE IF local_hash = new_hash THEN s3
       ELSE IF local_mod(local_hash, old_hash) /\ server_mod(old_hash, new_hash)
            THEN Throw([s3 EXCEPT !.remote_status = "Conflict"], "Conflict")
       ELSE IF local_mod(local_hash, old_hash) THEN updateWallet(s3, key)
       ELSE IF server_mod(old_hash, new_hash)
            THEN With(s3, saveServerWallet(s3, server_wallet, key), <<"NotModified">>)
       ELSE IF old_hash # new_hash THEN Throw(s3, "AssertionError Conflict")
       ELSE s3

\* function fetchWalletCallback(server_wallet, private_key)
fetchWalletCallback(s, server_wallet, key) ==
    LET subscriptionRequest == server_wallet.statusText = NoStatus
        fetchPromise == LET r == fetchWallet(s, server_wallet, key)
                        IN IF r.out = "fail" THEN [r EXCEPT !.promise = TRUE] ELSE r
    IN IF subscriptionRequest
       THEN With(s, fetchPromise, <<"notifyResolve">>)
       ELSE fetchPromise

\* function sync(private_key = this.private_key)
sync(s, key) ==
    IF key = NoKey \/ ~ s.api THEN s
    ELSE IF key \notin s.ws_subs
    THEN LET hash == localHash(s)
             answer == fetchWalletRPC(s.server, toPublicKey(key), hash)
         IN Await([s EXCEPT !.ws_subs = @ \cup {key}, !.cur.resp = answer,
                       !.sent = Append(@, [name |-> "fetchWallet", arg |-> hash])],
                  "fetchWallet", [key |-> key])
    ELSE IF s.remote_status \notin {"No Content", "Not Modified"}
         THEN Throw(s, "AssertionError Expecting No Content or Not Modified")
    ELSE IF s.remote_status = "Not Modified" /\ s.storage.remote_copy = Some(FALSE)
         THEN deleteRemoteWallet(s, key, localHash(s))
    ELSE updateWallet(s, key)


(***************************************************************************)
(* Public API                                                              *)
(***************************************************************************)
\* variant: no socket is set up after the close
WalletApi_Never(remote_url) == FALSE
\* if(remote_url != null) { this.ws_rpc = new WalletWebSocket(...); this.api = new WalletApi(...) }
\* else { this.ws_rpc = null; this.api = null }
WalletApi(remote_url) == remote_url # None

\* useBackupServer( remote_url = this.storage.state.get("remote_url"))
useBackupServer(s, remote_url) ==
    LET p == s.api
        s1 == [s EXCEPT !.api = WalletApi(remote_url), !.ws_subs = {}]
        s2 == IF remote_url # s.storage.remote_url
              THEN [s1 EXCEPT !.notify = TRUE,
                              !.storage = setStorage(@, [remote_url |-> remote_url])]
              ELSE s1
    IN IF p THEN With(s2, Await(s2, "close", None), <<"notifyResolve">>)
       ELSE notifySubscribers(s2)

\* variant: a remote copy may be asked for without a server
configuration_error_Unchecked(s, remote_copy) == FALSE
\* if( remote_copy === true && ! this.storage.state.get("remote_url")) in keepRemoteCopy
configuration_error(s, remote_copy) == remote_copy /\ s.storage.remote_url = None

\* keepRemoteCopy( remote_copy = true, remote_token = this.storage.state.get("remote_token") )
keepRemoteCopy(s, remote_copy, remote_token) ==
    IF Some(remote_copy) = s.storage.remote_copy /\ remote_token = s.storage.remote_token
    THEN s
    ELSE IF configuration_error(s, remote_copy)
    THEN Throw(s, "configuration_error")
    ELSE IF remote_copy /\ s.private_key = NoKey
            /\ has(s.wallet_object, "weak_password") /\ s.wallet_object["weak_password"]
    THEN Throw(s, "weak_password")
    ELSE LET state == IF remote_token # Some(null)
                      THEN [remote_copy |-> Some(remote_copy), remote_token |-> remote_token]
                      ELSE [remote_copy |-> Some(remote_copy)]
             s1 == [s EXCEPT !.notify = TRUE, !.storage = setStorage(@, state)]
         IN With(s1, sync(s1, s1.private_key), <<"notifyResolve">>)

\* variant: the new wallet is created without the chain of the login
defaults_NoChain(chain_id, dt, weak_password) ==
    [chain_id |-> null, created |-> dt, last_modified |-> dt,
     weak_password |-> weak_password]
\* the tree init() merges into wallet_object:
\* { chain_id, created: dt, last_modified: dt, weak_password }
defaults(chain_id, dt, weak_password) ==
    [chain_id |-> chain_id, created |-> dt, last_modified |-> dt,
     weak_password |-> weak_password]

\* login( email, username, password, chain_id = null )
login(s0, email, username, password, chain_id) ==
    LET key == fromSeed(Seed(email, username, password))
        s == [s0 EXCEPT !.notify = TRUE, !.cur.key = key, !.cur.chain_id = chain_id]
        encrypted_wallet == s.storage.encrypted_wallet
        weak_password == trim(email) = "" \/ trim(username) = ""
        dt == s.now
        init == [s EXCEPT !.wallet_object = merge(defaults(chain_id, dt, weak_password), @)]
        prePopulated == ~ isEmpty(s.wallet_object)
    IN IF encrypted_wallet # None
       THEN Await(s, "decrypt_login", [backup_buffer |-> Buffer64(Val(encrypted_wallet))])
       ELSE IF weak_password /\ s.storage.remote_copy = Some(TRUE)
       THEN Throw(s, "weak_password")
       ELSE IF prePopulated
       THEN With(init, updateWallet(init, key), <<"sync", "unlock", "notify">>)
       ELSE With(init, sync(init, key), <<"login3">>)

\* decrypt(backup_buffer, private_key).then( wallet_object => {...}) in login
loginThen(s) ==
    LET backup_buffer == s.cur.data.backup_buffer
        key == s.cur.key
        chain_id == s.cur.chain_id
    IN IF ~ CanDecrypt(backup_buffer, key) THEN Throw(s, "invalid_password")
       ELSE LET decrypted == decrypt(backup_buffer, key)
                s1 == [s EXCEPT !.wallet_object = mergeDeep(@, decrypted),
                                !.private_key = key, !.notify = TRUE]
            IN IF chain_id # null /\ chain_id # getStr(decrypted, "chain_id")
               THEN Throw(s, "chain_mismatch")
               ELSE With(s1, sync(s1, s1.private_key), <<"notifyResolve">>)

\* variant: the login of a new wallet unlocks without a notification
login3_Silent(s) ==
    LET chain_id == s.cur.chain_id IN
    IF ~ has(s.wallet_object, "chain_id") /\ chain_id = null
    THEN Throw(s, "Chain ID is required on first login")
    ELSE IF chain_id # null /\ has(s.wallet_object, "chain_id")
            /\ s.wallet_object["chain_id"] # chain_id
    THEN Throw(s, "chain_mismatch")
    ELSE [s EXCEPT !.private_key = s.cur.key]
\* this.sync(private_key).then( ()=>{...}) at the end of login
login3(s) ==
    LET chain_id == s.cur.chain_id IN
    IF ~ has(s.wallet_object, "chain_id") /\ chain_id = null
    THEN Throw(s, "Chain ID is required on first login")
    ELSE IF chain_id # null /\ has(s.wallet_object, "chain_id")
            /\ s.wallet_object["chain_id"] # chain_id
    THEN Throw(s, "chain_mismatch")
    ELSE notifySubscribers([s EXCEPT !.private_key = s.cur.key])

\* logout()
logout(s) ==
    LET key == s.private_key
        s1 == [s EXCEPT !.wallet_object = EmptyMap, !.remote_status = NoStatus,
                        !.private_key = NoKey]
    IN IF key # NoKey /\ s.api /\ key \in s.ws_subs
       THEN With(s1, Await([s1 EXCEPT !.ws_subs = @ \ {key},
                               !.sent = Append(@, [name |-> "fetchWalletUnsubscribe",
                                                   arg |-> toPublicKey(key)])],
                           "fetchWalletUnsubscribe", None),
                 <<"useBackupServer", "notifyResolve">>)
       ELSE With(s1, s1, <<"useBackupServer", "notifyResolve">>)

\* getState()
getState(s) ==
    IF s.private_key = NoKey THEN Reject(s, "Wallet is locked")
    ELSE With(s, sync(s, s.private_key), <<"getState", "notifyResolve">>)

\* variant: a merge that changes nothing is treated as an edit
still_the_same_Never(tree, merged) == FALSE
\* Still the same after merging?  if(this.wallet_object === wallet_object)
still_the_same(tree, merged) == tree = merged

\* setState( wallet_object )
setState(s, partial) ==
    IF s.private_key = NoKey THEN Throw(s, "wallet_locked")
    ELSE IF ~ has(s.wallet_object, "created") THEN Throw(s, "Login to create wallet")
    ELSE LET merged == mergeDeep(s.wallet_object, partial)
             s1 == [s EXCEPT !.notify = TRUE, !.local_status = "Pending",
                        !.wallet_object = merge(merged, [last_modified |-> s.now])]
         IN IF still_the_same(s.wallet_object, merged) THEN s
            ELSE With(s1, updateWallet(s1, s1.private_key), <<"notifyResolve">>)

\* variant: the password may change while the remote copy is out of date
wallet_modified_Unchecked(s) == FALSE
\* if( remote_copy === true ) { if( toBase64(original_local_hash) !== remote_hash ) ... }
\* in changePassword
wallet_modified(s) ==
    /\ s.storage.remote_copy = Some(TRUE)
    /\ Some(toBase64(localHash(s))) # s.storage.remote_hash

\* changePassword( password, email = "", username = ""), up to encrypt
changePassword(s, password, email, username) ==
    LET new_private_key == fromSeed(Seed(email, username, password))
        weak_password == trim(email) = "" \/ trim(username) = ""
        original_local_hash == localHash(s)
        remote_copy == s.storage.remote_copy
        s1 == [s EXCEPT !.wallet_object =
                  merge(@, [last_modified |-> s.now, weak_password |-> weak_password])]
    IN IF s.private_key = NoKey THEN Throw(s, "Wallet is locked")
       ELSE IF s.storage.encrypted_wallet = None THEN Throw(s, "wallet_empty")
       ELSE IF weak_password /\ remote_copy = Some(TRUE) THEN Throw(s, "weak_password")
       ELSE IF wallet_modified(s) THEN Throw(s, "wallet_modified")
       ELSE [ Await(s1, "encrypt_changePassword",
                    [new_private_key |-> new_private_key, old_private_key |-> s.private_key,
                     original_local_hash |-> original_local_hash,
                     remote_copy |-> remote_copy, json |-> s1.wallet_object])
              EXCEPT !.promise = TRUE ]

\* encrypt(this.wallet_object, new_public_key).then( encrypted_data => {...})
\* in changePassword
changePasswordThen(s, n) ==
    LET d == s.cur.data
        encrypted_data == encrypt(d.json, toPublicKey(d.new_private_key), n)
        s1 == [s EXCEPT !.out = "ok",
                 !.storage = setStorage(@, [encrypted_wallet |-> Some(toString64(encrypted_data))]),
                 !.local_status = null,
                 !.notify = TRUE]
        s2 == IF d.old_private_key \in s1.ws_subs
              THEN [s1 EXCEPT !.ws_subs = @ \ {d.old_private_key},
                              !.sent = Append(@, [name |-> "fetchWalletUnsubscribe",
                                                  arg |-> toPublicKey(d.old_private_key)])]
              ELSE s1
    IN IF ~ s.api \/ d.remote_copy # Some(TRUE)
       THEN notifySubscribers([s1 EXCEPT !.private_key = d.new_private_key])
       \* Signature.signBufferSha256(original_local_hash, old_private_key):
       \* old_private_key is not defined
       ELSE Throw(s2, "ReferenceError")

\* variant: the subscribers are notified only when the promise resolves
notifyResolve_ThenOnly(s) == IF s.out # "ok" THEN s ELSE notifySubscribers(s)
\* function notifyResolve(promise): the reaction to either outcome
notifyResolve(s) == notifySubscribers(s)

\* the reactions attached to a promise
Frame(f, s) ==
    CASE f = "notifyResolve" -> notifyResolve(s)
      [] s.out # "ok" -> s
      [] f = "NotModified" -> [s EXCEPT !.remote_status = "Not Modified"]
      [] f = "sync" -> sync(s, s.cur.key)
      [] f = "unlock" -> [s EXCEPT !.private_key = s.cur.key]
      [] f = "notify" -> notifySubscribers(s)
      [] f = "login3" -> login3(s)
      [] f = "getState" -> [s EXCEPT !.ret = Some(s.wallet_object)]
      [] f = "useBackupServer" -> useBackupServer(s, s.storage.remote_url)

\* function notifyResolve(promise) and the other reactions, run until the
\* chain settles or waits again
RECURSIVE Run(_)
Run(s) ==
    IF s.out = "await" \/ s.cur.stack = <<>> THEN s
    ELSE Run(Frame(Head(s.cur.stack), [s EXCEPT !.cur.stack = Tail(@)]))

\* a call that threw has no promise and no reactions; any other runs its chain
Settle(s0) == IF s0.out = "fail" /\ ~ s0.promise THEN s0 ELSE Run(s0)


(***************************************************************************)
(* Steps                                                                   *)
(***************************************************************************)
FreeSlots == { i \in Slots : tasks[i] = NoTask }
FreeSlot == IF FreeSlots = {} THEN 0 ELSE CHOOSE i \in FreeSlots : \A j \in FreeSlots : i <= j

\* the state in which a public method starts
\* the public methods that return a promise
ApiCalls == {"login", "logout", "getState", "setState", "changePassword",
             "keepRemoteCopy", "useBackupServer"}
\* a task remembers the key and the notify flag the call found
Begin(op) == [St EXCEPT !.cur = [NewTask(op, private_key, FreeSlot) EXCEPT !.alone =
                \A i \in Slots : tasks[i] = NoTask \/ tasks[i].op \notin ApiCalls,
                !.notify = notify]]
\* the state in which the completion of tasks[i] is handled
Wake(i) == [St EXCEPT !.cur = tasks[i], !.promise = TRUE]

\* the outcome of the step: the task waits again or its operation is over
Commit(s0, pc) ==
    LET s == Settle(s0)
        t == [s.cur EXCEPT !.nfired = @ + s.fired]
        status == IF s.out = "await" THEN "pending"
                  ELSE IF s.out = "ok" THEN "resolved"
                  ELSE IF s.promise THEN "rejected" ELSE "thrown"
    IN /\ s.out = "await" => t.slot \in Slots
       /\ storage' = s.storage
       /\ wallet_object' = s.wallet_object
       /\ private_key' = s.private_key
       /\ remote_status' = s.remote_status
       /\ local_status' = s.local_status
       /\ notify' = s.notify
       /\ subscribers' = s.subscribers
       /\ api' = s.api
       /\ ws_subs' = s.ws_subs
       /\ server' = s.server
       /\ tasks' = [i \in Slots |-> IF i = t.slot
                                    THEN (IF s.out = "await" THEN t ELSE NoTask)
                                    ELSE IF pc = "call" /\ t.op \in ApiCalls
                                            /\ s.tasks[i] # NoTask
                                    THEN [s.tasks[i] EXCEPT !.alone = FALSE]
                                    ELSE s.tasks[i]]
       /\ last' = [op |-> t.op, status |-> status,
                   err |-> IF s.out = "fail" THEN s.err ELSE "",
                   sent |-> s.sent, fired |-> s.fired, nfired |-> t.nfired,
                   ret |-> s.ret, pc |-> pc, slot |-> t.slot, alone |-> t.alone]
       /\ declared' = IF s.out = "fail" /\ s.err = "Conflict" THEN TRUE
                      ELSE IF pc = "call" /\ t.op \in {"setState", "changePassword", "prePopulate"}
                      THEN FALSE ELSE declared
       /\ UNCHANGED now

Call(s) == /\ nops > 0
           /\ nops' = nops - 1
           /\ UNCHANGED nenv
           /\ Commit(s, "call")

LoginWith(creds, chains) == \E c \in creds, chain_id \in chains :
            Call(login(Begin("login"), c.email, c.username, c.password, chain_id))
Login == LoginWith(Creds, Chains \cup {null})
Logout == Call(logout(Begin("logout")))
GetState == Call(getState(Begin("getState")))
Partials == { [f \in {"k"} |-> "A"], [f \in {"chain_id"} |-> "chainB"] }
SetStateWith(partials) == \E partial \in partials : Call(setState(Begin("setState"), partial))
SetState == SetStateWith(Partials)
ChangePassword == \E c \in Creds :
            Call(changePassword(Begin("changePassword"), c.password, c.email, c.username))
KeepRemoteCopy == \E remote_copy \in BOOLEAN,
                     remote_token \in {storage.remote_token} \cup { Some(t) : t \in Tokens } :
            Call(keepRemoteCopy(Begin("keepRemoteCopy"), remote_copy, remote_token))
UseBackupServer == \E remote_url \in {storage.remote_url, None} \cup { Some(u) : u \in Urls } :
            Call(useBackupServer(Begin("useBackupServer"), remote_url))

\* wallet.wallet_object = Map({...}) before the login: a pre-populated wallet
PrePopulated == { [f \in {"k"} |-> "P"] }
PrePopulate == /\ private_key = NoKey
               /\ isEmpty(wallet_object)
               /\ \E m \in PrePopulated :
                    Call([Begin("prePopulate") EXCEPT !.wallet_object = m])

\* subscribe( callback ), unsubscribe( callback )
Subscribe == \E cb \in Callbacks :
    /\ cb \notin subscribers
    /\ Call([Begin("subscribe") EXCEPT !.subscribers = @ \cup {cb}])
Unsubscribe == \E cb \in Callbacks :
    /\ cb \in subscribers
    /\ Call([Begin("unsubscribe") EXCEPT !.subscribers = @ \ {cb}])

Done(s) == /\ UNCHANGED <<nops, nenv>>
           /\ Commit(s, tasks[s.cur.slot].pc)

\* encrypt resolves
EncryptDone == \E i \in Slots, n \in Nonces :
    /\ tasks[i] # NoTask
    /\ \/ tasks[i].pc = "encrypt" /\ Done(updateWalletThen(Wake(i), n))
       \/ tasks[i].pc = "encrypt_changePassword" /\ Done(changePasswordThen(Wake(i), n))

\* decrypt resolves or rejects
DecryptDone == \E i \in Slots :
    /\ tasks[i] # NoTask
    /\ \/ tasks[i].pc = "decrypt_login" /\ Done(loginThen(Wake(i)))
       \/ tasks[i].pc = "decrypt" /\ Done(saveServerWalletThen(Wake(i)))

\* the answer to a request arrives
Reply == \E i \in Slots :
    /\ tasks[i] # NoTask
    /\ \/ tasks[i].pc = "createWallet" /\ Done(createWalletThen(Wake(i)))
       \/ tasks[i].pc = "saveWallet" /\ Done(saveWalletThen(Wake(i)))
       \/ tasks[i].pc = "deleteWallet" /\ Done(deleteWalletThen(Wake(i)))
       \/ tasks[i].pc \in {"fetchWalletUnsubscribe", "close"} /\ Done(Wake(i))

\* the server calls the fetchWallet callback: first with its answer, later
\* with every change
Callback == \E i \in Slots :
    /\ tasks[i] # NoTask
    /\ \/ /\ tasks[i].pc = "fetchWallet"
          /\ Done(fetchWalletCallback(Wake(i), tasks[i].resp, tasks[i].data.key))
       \/ /\ tasks[i].pc = "push"
          /\ \A j \in Slots : tasks[j] # NoTask =>
                ~ (tasks[j].pc = "fetchWallet" /\ tasks[j].data.key = tasks[i].key)
          /\ Done(fetchWalletCallback(Wake(i), tasks[i].resp, tasks[i].key))

\* the reaction to the completion the running task waits for
Resume(w, n) ==
    CASE w.cur.pc = "encrypt" -> updateWalletThen(w, n)
      [] w.cur.pc = "encrypt_changePassword" -> changePasswordThen(w, n)
      [] w.cur.pc = "decrypt_login" -> loginThen(w)
      [] w.cur.pc = "decrypt" -> saveServerWalletThen(w)
      [] w.cur.pc = "createWallet" -> createWalletThen(w)
      [] w.cur.pc = "saveWallet" -> saveWalletThen(w)
      [] w.cur.pc = "deleteWallet" -> deleteWalletThen(w)
      [] w.cur.pc = "fetchWallet" -> fetchWalletCallback(w, w.cur.resp, w.cur.data.key)
      [] OTHER -> w

\* a call made when nothing else is pending, followed to the end: every
\* completion it waits for arrives before anything else happens
RECURSIVE Finish(_, _)
Finish(s, n) ==
    IF s.out # "await" THEN s
    ELSE Finish(Settle(Resume([s EXCEPT !.out = "ok", !.promise = TRUE], n)), n)

\* the state in which the next call starts after a call that is over
Then(s, op) == [s EXCEPT !.cur = NewTask(op, s.private_key, 1), !.out = "ok", !.err = "",
                         !.promise = FALSE, !.sent = <<>>, !.fired = 0, !.invoked = <<>>,
                         !.ret = None]

OtherWallet(chain_id, time) ==
    [chain_id |-> chain_id, created |-> time, last_modified |-> time,
     weak_password |-> FALSE, k |-> "S"]
OtherKeys == { fromSeed(<<"a@x", "alice", "pw">>) }
OtherDevice == \E key \in OtherKeys, kind \in {"save", "delete"}, chain_id \in Chains :
    LET public_key == toPublicKey(key)
        w == server[public_key]
        json == IF w = None THEN OtherWallet(chain_id, now)
                ELSE merge(Val(w).encrypted_data.json, [k |-> "S", last_modified |-> now])
        encrypted_data == encrypt(json, public_key, 2)
        w2 == IF kind = "delete" THEN None
              ELSE Some([encrypted_data |-> encrypted_data,
                         created |-> IF w = None THEN now ELSE Val(w).created,
                         updated |-> now])
        push == [NewTask("push", key, FreeSlot) EXCEPT !.pc = "push",
                                                       !.resp = ServerRecord(w2, NoStatus)]
    IN /\ nenv < MaxEnv
       /\ kind = "delete" => w # None
       /\ w # None => chain_id = "chainA"
       /\ w2 # w
       /\ nenv' = nenv + 1
       /\ server' = [server EXCEPT ![public_key] = w2]
       /\ IF key \in ws_subs
          THEN /\ FreeSlot \in Slots
               /\ tasks' = [tasks EXCEPT ![FreeSlot] = push]
          ELSE UNCHANGED tasks
       /\ last' = [NoLast EXCEPT !.op = "otherDevice"]
       /\ declared' = FALSE
       /\ UNCHANGED <<storage, wallet_object, private_key, remote_status, local_status,
                      notify, subscribers, api, ws_subs, now, nops>>

Tick == /\ now < MaxTime
        /\ now' = now + 1
        /\ last' = [NoLast EXCEPT !.op = "tick"]
        /\ UNCHANGED <<storage, wallet_object, private_key, remote_status, local_status,
                       notify, subscribers, api, ws_subs, server, tasks, nops, nenv, declared>>

(***************************************************************************)
(* constructor(storage): a container made over a storage that is empty or  *)
(* was left by earlier sessions of the same user (key Key1, first wallet   *)
(* Wallet0 created at time 0 on chainA)                                    *)
(***************************************************************************)
Key1 == fromSeed(Seed("a@x", "alice", "pw"))
Wallet0 == [chain_id |-> "chainA", created |-> 0, last_modified |-> 0,
            weak_password |-> FALSE]
Wallet1 == merge(Wallet0, [k |-> "A"])
Cipher0 == encrypt(Wallet0, toPublicKey(Key1), 0)
Cipher1 == encrypt(Wallet1, toPublicKey(Key1), 1)
Hash64(encrypted_data) == toString64(sha256(encrypted_data))
ServerCopy0 == Some([encrypted_data |-> Cipher0, created |-> 0, updated |-> 0])

\* useBackupServer(url)
StoreUrl == setStorage(EmptyStorage, [remote_url |-> Some("ws://backup")])
\* useBackupServer(url); keepRemoteCopy(true, "tok")
StoreToken == setStorage(StoreUrl, [remote_copy |-> Some(TRUE), remote_token |-> Some("tok")])
\* login; keepLocalCopy; setState({}) offline; logout
StoreLocal == setStorage(EmptyStorage, [encrypted_wallet |-> Some(toString64(Cipher0))])
\* useBackupServer(url); login; keepRemoteCopy(true, "tok"); logout: the
\* wallet was created on the server
StoreSynced == setStorage(StoreUrl,
    [encrypted_wallet |-> Some(toString64(Cipher0)), remote_copy |-> Some(TRUE),
     remote_token |-> Some(null), remote_hash |-> Some(Hash64(Cipher0)),
     remote_created_date |-> Some(0), remote_updated_date |-> Some(0)])
\* then useBackupServer(null); login; setState({k: "A"}); logout;
\* useBackupServer(url): the wallet was edited while off line
StoreEdited == setStorage(StoreSynced, [encrypted_wallet |-> Some(toString64(Cipher1))])

constructor(state, srv, budget) ==
        /\ storage = state
        /\ wallet_object = EmptyMap
        /\ private_key = NoKey
        /\ remote_status = NoStatus
        /\ local_status = null
        /\ notify = FALSE
        /\ subscribers = {}
        /\ api = (state.remote_url # None)
        /\ ws_subs = {}
        /\ server = srv
        /\ tasks = [i \in Slots |-> NoTask]
        /\ now = 0
        /\ nops = budget
        /\ nenv = 0
        /\ last = NoLast
        /\ declared = FALSE

Init == \/ \E state \in {EmptyStorage, StoreUrl, StoreToken, StoreLocal} :
                constructor(state, EmptyServer, MaxOps)
        \/ \E state \in {StoreSynced, StoreEdited} :
                constructor(state, [EmptyServer EXCEPT ![toPublicKey(Key1)] = ServerCopy0], MaxOps)

\* the stores on which a login meets a server copy: not yet downloaded,
\* unchanged, edited off line, or edited and saved by a session that ended
\* before the answer to its saveWallet arrived
ServerCopy1 == Some([encrypted_data |-> Cipher1, created |-> 0, updated |-> 0])
InitFetch == \/ \E state \in {StoreUrl, StoreSynced, StoreEdited} :
                    constructor(state, [EmptyServer EXCEPT ![toPublicKey(Key1)] = ServerCopy0], MaxOps)
             \/ constructor(StoreEdited, [EmptyServer EXCEPT ![toPublicKey(Key1)] = ServerCopy1], MaxOps)

\* the wallet was edited off line and another device saved its own edit
WalletS == merge(Wallet0, [k |-> "S"])
CipherS == encrypt(WalletS, toPublicKey(Key1), 2)
ServerCopyS == Some([encrypted_data |-> CipherS, created |-> 0, updated |-> 0])
InitConflict ==
    constructor(StoreEdited, [EmptyServer EXCEPT ![toPublicKey(Key1)] = ServerCopyS],
                MaxOpsConflict)

Next == \/ Login \/ Logout \/ GetState \/ SetState \/ ChangePassword
        \/ KeepRemoteCopy \/ UseBackupServer \/ PrePopulate \/ Subscribe \/ Unsubscribe
        \/ EncryptDone \/ DecryptDone \/ Reply \/ Callback \/ OtherDevice \/ Tick

Spec == Init /\ [][Next]_vars

\* the first user on chainA logs in, edits and looks, while another device
\* changes the server's copy
User1 == { c \in Creds : c.email = "a@x" }
NextFetch == \/ LoginWith(User1, {null}) \/ SetStateWith({[f \in {"k"} |-> "A"]}) \/ GetState
             \/ EncryptDone \/ DecryptDone \/ Reply \/ Callback \/ OtherDevice \/ Tick
SpecFetch == InitFetch /\ [][NextFetch]_vars

\* logins and logouts of one user, chained or overlapping, on a new store and
\* on a store with a wallet, with and without a server
InitLogin == \/ \E state \in {EmptyStorage, StoreUrl, StoreLocal} :
                    constructor(state, EmptyServer, MaxOpsLogin)
             \/ constructor(StoreSynced,
                            [EmptyServer EXCEPT ![toPublicKey(Key1)] = ServerCopy0], MaxOpsLogin)
NextLogin == \/ LoginWith(User1, {null, "chainA"}) \/ Logout \/ Subscribe \/ PrePopulate
             \/ EncryptDone \/ DecryptDone \/ Reply \/ Callback \/ OtherDevice \/ Tick
SpecLogin == InitLogin /\ [][NextLogin]_vars

NextConflict == \/ LoginWith(User1, {null}) \/ Logout \/ GetState \/ Subscribe
                \/ EncryptDone \/ DecryptDone \/ Reply \/ Callback \/ Tick
SpecConflict == InitConflict /\ [][NextConflict]_vars

\* one user logs in on a store with a wallet, off line or synced with the
\* server, and once unlocked edits the wallet twice without waiting, while
\* another device may change the server's copy; the user edits field j,
\* the other device field k
Edits == { [f \in {"j"} |-> "A"], [f \in {"j"} |-> "B"] }
InitEdit == \/ constructor(StoreLocal, EmptyServer, MaxOpsEdit)
            \/ constructor(StoreSynced,
                           [EmptyServer EXCEPT ![toPublicKey(Key1)] = ServerCopy0], MaxOpsEdit)
LoginFirst == nops = MaxOpsEdit /\ LoginWith(User1, {null})
EditUnlocked == /\ private_key # NoKey
                /\ \A i \in Slots : tasks[i] = NoTask \/ tasks[i].op # "login"
                /\ SetStateWith(Edits)
NextEdit == \/ LoginFirst \/ EditUnlocked
            \/ EncryptDone \/ DecryptDone \/ Reply \/ Callback \/ OtherDevice \/ Tick
SpecEdit == InitEdit /\ [][NextEdit]_vars

(***************************************************************************)
(* Properties                                                              *)
(***************************************************************************)
\* the step handles the completion of tasks[i], which waited at pc
Resumes(i, pc) == /\ tasks[i] # NoTask
                  /\ tasks[i].pc = pc
                  /\ last'.slot = i
                  /\ last'.pc = pc
\* the step runs the fetch handler on the server record of tasks[i]
Fetches(i) == Resumes(i, "fetchWallet") \/ Resumes(i, "push")
HasLocal == storage.encrypted_wallet # None
LocalHash64 == Some(Hash64(Buffer64(Val(storage.encrypted_wallet))))
Uploads(sent) == \E j \in DOMAIN sent : sent[j].name \in {"createWallet", "saveWallet"}
\* both copies changed since the last common version
Diverged(i) == /\ tasks[i].resp.local_hash # None
               /\ storage.remote_copy = Some(TRUE)
               /\ HasLocal
               /\ LocalHash64 # storage.remote_hash
               /\ storage.remote_hash # tasks[i].resp.local_hash
\* the handler failed with Conflict and neither pushed nor pulled
Conflicted(i) == /\ remote_status' = "Conflict"
                 /\ last'.status = "rejected" /\ last'.err = "Conflict"
                 /\ ~ Uploads(last'.sent)
                 /\ tasks'[i] = NoTask
                 /\ storage'.encrypted_wallet = storage.encrypted_wallet
                 /\ wallet_object' = wallet_object

\* C1 as stated: in the fetch handler, has_remote, remote_copy == true,
\* has_local, local_hash != old remote_hash and old remote_hash != server hash
\* make the handler fail with Conflict, set remote_status to "Conflict" and
\* neither push nor pull.
C1_Stated == [][\A i \in Slots : Fetches(i) /\ Diverged(i) => Conflicted(i)]_vars

\* C1 as amended: the same, when moreover the local hash differs from the
\* server's hash (a local copy that already is the server's copy is left alone).
C1_Conflict == [][\A i \in Slots :
                    Fetches(i) /\ Diverged(i) /\ LocalHash64 # tasks[i].resp.local_hash
                        => Conflicted(i)]_vars
\* a fetch handler has just declared a conflict
C1_Witness == /\ last.pc \in {"fetchWallet", "push"}
              /\ last.err = "Conflict"
              /\ remote_status = "Conflict"


\* C2: once the fetch handler has failed with Conflict, and as long as the
\* user makes no edit and the server copy does not change, no reconciliation
\* uploads the local ciphertext (createWallet, saveWallet) or replaces the
\* local ciphertext by the server's.
C2_NoResolution ==
    [][declared /\ declared'
        => /\ ~ Uploads(last'.sent)
           /\ server' = server
           /\ \/ storage'.encrypted_wallet = storage.encrypted_wallet
              \/ \A p \in PubKeys : server[p] # None =>
                    storage'.encrypted_wallet # Some(toString64(Val(server[p]).encrypted_data))]_vars

\* C3: a successful pull ends with encrypted_wallet equal to the server's
\* encrypted_data, remote_hash equal to the server's local_hash,
\* wallet_object equal to the decryption of that ciphertext, local_status
\* clean and remote_status "Not Modified".
C3_Pull ==
    [][\A i \in Slots :
        Resumes(i, "decrypt")
        /\ CanDecrypt(Buffer64(Val(tasks[i].data.server_wallet.encrypted_data)), tasks[i].data.key)
        => LET server_wallet == tasks[i].data.server_wallet IN
           /\ storage'.encrypted_wallet = server_wallet.encrypted_data
           /\ storage'.remote_hash = server_wallet.local_hash
           /\ wallet_object' = decrypt(Buffer64(Val(server_wallet.encrypted_data)),
                                       tasks[i].data.key)
           /\ local_status' = null
           /\ remote_status' = "Not Modified"]_vars
\* the edit of another device has been pulled over the local copy
C3_Witness == /\ last.pc = "decrypt"
              /\ last.err = ""
              /\ remote_status = "Not Modified"
              /\ has(wallet_object, "k") /\ wallet_object["k"] = "S"
              /\ storage.encrypted_wallet = Some(toString64(encrypt(wallet_object, toPublicKey(Key1), 2)))


\* C4 as stated: in every state a persisted remote_copy = true comes with a
\* remote_url and with a remote_hash or a remote_token.
C4_Stated ==
    storage.remote_copy = Some(TRUE)
    => /\ storage.remote_url # None
       /\ storage.remote_hash # None \/ hasToken(storage.remote_token)
\* C4: remote_copy is turned on only while a remote_url is persisted, and
\* that step keeps the remote_url.
C4_TurnedOn ==
    [][storage.remote_copy # Some(TRUE) /\ storage'.remote_copy = Some(TRUE)
        => storage.remote_url # None /\ storage'.remote_url # None]_vars
\* keepRemoteCopy(true) went through on a store without token and hash
C4_Witness == /\ last.op = "keepRemoteCopy" /\ last.pc = "call"
              /\ last.status \in {"pending", "resolved"}
              /\ storage.remote_copy = Some(TRUE)
              /\ storage.remote_url # None
              /\ storage.remote_hash = None /\ ~ hasToken(storage.remote_token)

\* the step in which the updateWallet of tasks[i] ends without an error
Uploaded(i) == /\ Resumes(i, "createWallet") \/ Resumes(i, "saveWallet")
               /\ tasks[i].resp.ok
               /\ tasks[i].resp.statusText = "OK"
               /\ last'.err # "AssertionError local_hash"
LocalOnly(i) == /\ Resumes(i, "encrypt")
                /\ ~ Uploads(last'.sent)
                /\ last'.err \notin {"AssertionError remote_status", "AssertionError remote_hash"}
\* C5 as stated: after an updateWallet that ends without an error while
\* remote_copy is persisted true, remote_hash is the base64 hash of the
\* persisted encrypted_wallet.
C5_Stated ==
    [][\A i \in Slots :
        (Uploaded(i) \/ LocalOnly(i)) /\ storage'.remote_copy = Some(TRUE)
        => HasLocal' /\ storage'.remote_hash = LocalHash64']_vars
\* C5: after an updateWallet whose createWallet or saveWallet was answered
\* OK, and while encrypted_wallet still is the ciphertext it uploaded,
\* remote_hash is the base64 hash of the persisted encrypted_wallet.
C5_Uploaded ==
    [][\A i \in Slots :
        Uploaded(i) /\ HasLocal /\ LocalHash64 = Some(tasks[i].data.local_hash)
        => HasLocal' /\ storage'.remote_hash = LocalHash64']_vars
C5_Witness == /\ last.pc \in {"createWallet", "saveWallet"}
              /\ last.err = ""
              /\ remote_status = "Not Modified"
              /\ storage.remote_copy = Some(TRUE)
              /\ HasLocal /\ storage.remote_hash = LocalHash64

\* C6: no createWallet, saveWallet or changePassword request carries the
\* ciphertext of a wallet whose weak_password is true, and remote_copy is
\* never true while the unlocked wallet's weak_password is true.
Weak(m) == has(m, "weak_password") /\ m["weak_password"] = TRUE
WeakUpload(sent) ==
    \E j \in DOMAIN sent : /\ sent[j].name \in {"createWallet", "saveWallet", "changePassword"}
                           /\ Weak(sent[j].arg.json)
C6_NoWeakBackup ==
    /\ ~ WeakUpload(last.sent)
    /\ ~ (storage.remote_copy = Some(TRUE) /\ private_key # NoKey /\ Weak(wallet_object))

\* C7: while the wallet stays unlocked under one key, a chain_id that is
\* set keeps its value.
C7_ChainId ==
    [][/\ private_key # NoKey /\ private_key' = private_key
       /\ has(wallet_object, "chain_id") /\ wallet_object["chain_id"] # null
       /\ ~ isEmpty(wallet_object')
       => /\ has(wallet_object', "chain_id")
          /\ wallet_object'["chain_id"] = wallet_object["chain_id"]]_vars

\* C8: when the encryption started by changePassword is done the container
\* is unlocked under the new key, the persisted encrypted_wallet decrypts
\* under it, and to the tree changePassword encrypted.
C8_NewKey ==
    [][\A i \in Slots :
        Resumes(i, "encrypt_changePassword")
        => /\ private_key' = tasks[i].data.new_private_key
           /\ HasLocal'
           /\ CanDecrypt(Buffer64(Val(storage'.encrypted_wallet)), private_key')
           /\ decrypt(Buffer64(Val(storage'.encrypted_wallet)), private_key')
                = tasks[i].data.json]_vars

\* what the persisted hash says of the local ciphertext
OutOfDate == /\ storage.remote_copy = Some(TRUE)
             /\ storage.remote_hash # (IF HasLocal THEN LocalHash64 ELSE None)
\* changePassword fails with e and changes nothing
Refused(r, e) ==
    /\ r.out = "fail" /\ r.err = e
    /\ r.sent = <<>> /\ r.fired = 0
    /\ r.storage = storage /\ r.wallet_object = wallet_object
    /\ r.private_key = private_key /\ r.local_status = local_status
    /\ r.remote_status = remote_status /\ r.notify = notify
\* C9 as stated: changePassword called while remote_copy is true and
\* remote_hash is not the base64 hash of the local ciphertext fails with
\* wallet_modified and changes nothing.
C9_Stated ==
    \A c \in Creds :
        OutOfDate => Refused(changePassword(Begin("changePassword"), c.password, c.email,
                                            c.username), "wallet_modified")
\* C9: so it does on an unlocked container with a persisted ciphertext when
\* the new email and username are not empty.
C9_WalletModified ==
    \A c \in Creds :
        OutOfDate /\ private_key # NoKey /\ HasLocal /\ trim(c.email) # "" /\ trim(c.username) # ""
        => Refused(changePassword(Begin("changePassword"), c.password, c.email,
                                  c.username), "wallet_modified")
C9_Witness == /\ last.op = "changePassword" /\ last.err = "wallet_modified"
              /\ last.status = "thrown"
              /\ OutOfDate /\ private_key # NoKey

Settles(i, op) == /\ tasks[i] # NoTask
                  /\ tasks[i].op = op
                  /\ last'.slot = i
                  /\ last'.pc = tasks[i].pc
                  /\ last'.status \in {"resolved", "rejected"}
SettlesInCall(op) == /\ last'.op = op
                     /\ last'.pc = "call"
                     /\ nops' = nops - 1
                     /\ last'.status \in {"resolved", "rejected"}

\* C11: a logout called on an unlocked container whose notify flag is clear
\* has invoked the subscribers exactly once when its promise resolves
C11_LogoutNotifies ==
    [][/\ private_key # NoKey /\ ~ notify /\ SettlesInCall("logout")
          /\ last'.status = "resolved" => last'.nfired = 1
       /\ \A i \in Slots :
            Settles(i, "logout") /\ tasks[i].key # NoKey /\ ~ tasks[i].notify
            /\ last'.status = "resolved" => last'.nfired = 1]_vars

(***************************************************************************)
(* C12: what logout leaves behind                                          *)
(***************************************************************************)
\* the container is locked and holds no wallet
Locked(w, status, key) == isEmpty(w) /\ status = NoStatus /\ key = NoKey

\* what every step of a logout does: the call locks the container, the later
\* steps leave it locked, and none changes a persisted field
LogoutLocks ==
    /\ storage' = storage
    /\ last'.pc = "call" => Locked(wallet_object', remote_status', private_key')
    /\ last'.pc # "call" => UNCHANGED <<wallet_object, remote_status, private_key>>

ValidationErrors == {"wallet_locked", "Wallet is locked", "Login to create wallet",
                     "weak_password", "wallet_empty", "wallet_modified",
                     "configuration_error"}
Validated == {"login", "setState", "changePassword", "keepRemoteCopy", "getState"}

\* C13: a call of login, setState, changePassword, keepRemoteCopy or getState
\* that fails with a validation error leaves storage, wallet_object,
\* private_key, local_status, remote_status and notify as they were and
\* invokes no subscriber
C13_Validation ==
    [][/\ last'.pc = "call" /\ nops' = nops - 1
       /\ last'.op \in Validated
       /\ last'.status \in {"thrown", "rejected"}
       /\ last'.err \in ValidationErrors
       => /\ UNCHANGED <<storage, wallet_object, private_key, local_status,
                         remote_status, notify>>
          /\ last'.fired = 0]_vars

(***************************************************************************)
(* C14: failures and the dispatcher                                        *)
(***************************************************************************)
\* the promise of a call of one of `ops' is rejected in this step, for
\* another reason than a validation error, and the dispatcher has run: the
\* subscribers were invoked if notify was set, and notify is clear
RejectedNotifies(ops) ==
    /\ last'.op \in ops
    /\ last'.status = "rejected"
    /\ last'.err \notin ValidationErrors
    /\ last' # last
    => notify' = FALSE /\ (notify => last'.fired = 1)

Wrapped == {"logout", "getState", "setState", "keepRemoteCopy", "useBackupServer"}

EmptyStore ==
    /\ storage = EmptyStorage /\ ~ api
    /\ private_key = NoKey /\ isEmpty(wallet_object)
    /\ \A i \in Slots : tasks[i] = NoTask
Strong == { c \in Creds : trim(c.email) # "" /\ trim(c.username) # "" }

\* the new wallet a first login leaves in memory, with one notification
Created(r, chain_id) ==
    /\ r.out = "ok"
    /\ r.private_key # NoKey
    /\ r.wallet_object = defaults(chain_id, r.wallet_object["created"], FALSE)
    /\ r.storage.remote_hash = None
    /\ r.local_status = "null"
    /\ r.fired = 1

\* C15 as stated: the first login on an empty store without transport, with
\* non-empty email and username and a chain_id, ends with the new wallet
\* (chain_id as supplied, created = last_modified, weak_password false) in
\* memory, encrypted_wallet persisted, remote_hash absent, local_status
\* clean and exactly one notification
C15_Stated ==
    EmptyStore =>
        \A c \in Strong, chain_id \in Chains :
            LET r == Settle(login(Begin("login"), c.email, c.username, c.password, chain_id))
            IN Created(r, chain_id) /\ r.storage.encrypted_wallet # None

\* C15: as stated, but nothing is persisted: encrypted_wallet stays absent
\* and the store stays empty
C15_FirstLogin ==
    EmptyStore =>
        \A c \in Strong, chain_id \in Chains :
            LET r == Settle(login(Begin("login"), c.email, c.username, c.password, chain_id))
            IN Created(r, chain_id) /\ r.storage = EmptyStorage

\* such a login has resolved
C15_Witness ==
    /\ last.op = "login" /\ last.status = "resolved" /\ last.pc = "call"
    /\ last.fired = 1
    /\ storage = EmptyStorage /\ ~ api
    /\ private_key \in { fromSeed(Seed(c.email, c.username, c.password)) : c \in Strong }
    /\ has(wallet_object, "chain_id") /\ wallet_object["chain_id"] \in Chains

(***************************************************************************)
(* C16: login; getState; logout; login; getState                           *)
(***************************************************************************)
\* a container as constructed: locked, no wallet in memory, nothing pending
Fresh == /\ private_key = NoKey /\ isEmpty(wallet_object)
         /\ \A i \in Slots : tasks[i] = NoTask
Delays == 0 .. 1

\* the five calls in turn, each made when the one before is over, with the
\* same credentials, the second login d clock ticks after the logout
Trip(c, chain_id, n, d) ==
    LET login1 == Finish(Settle(login(Begin("login"), c.email, c.username, c.password,
                                      chain_id)), n)
        getState1 == Finish(Settle(getState(Then(login1, "getState"))), n)
        logout1 == Finish(Settle(logout(Then(getState1, "logout"))), n)
        later == [Then(logout1, "login") EXCEPT !.now = @ + d]
        login2 == Finish(Settle(login(later, c.email, c.username, c.password, chain_id)), n)
        getState2 == Finish(Settle(getState(Then(login2, "getState"))), n)
    IN [login1 |-> login1, getState1 |-> getState1, logout1 |-> logout1,
        login2 |-> login2, getState2 |-> getState2]
Succeeds(trip) == \A f \in DOMAIN trip : trip[f].out = "ok"

\* C16 as stated: when the five calls succeed, without a change of the
\* server's copy in between, both getState return the same tree
C16_Stated ==
    Fresh => \A c \in Creds, chain_id \in Chains \cup {null}, n \in Nonces, d \in Delays :
        LET trip == Trip(c, chain_id, n, d)
        IN Succeeds(trip) => trip.getState1.ret = trip.getState2.ret

\* C16: the same for a store that holds a ciphertext at the logout
C16_RoundTrip ==
    Fresh => \A c \in Creds, chain_id \in Chains \cup {null}, n \in Nonces, d \in Delays :
        LET trip == Trip(c, chain_id, n, d)
        IN Succeeds(trip) /\ trip.logout1.storage.encrypted_wallet # None
           => /\ trip.getState1.ret = trip.getState2.ret
              /\ trip.getState1.ret = Some(trip.login1.wallet_object)

\* a container that was locked by a logout, over a store with a ciphertext,
\* from which the five calls succeed with a tick before the second login
C16_Witness ==
    /\ Fresh /\ HasLocal
    /\ last.op = "logout" /\ last.status = "resolved"
    /\ \E c \in Creds, chain_id \in Chains, n \in Nonces :
        LET trip == Trip(c, chain_id, n, 1)
        IN /\ Succeeds(trip)
           /\ trip.getState1.ret # None
           /\ has(Val(trip.getState1.ret), "created")
           /\ trip.getState2.ret = trip.getState1.ret

(***************************************************************************)
(* C17: a setState that changes nothing                                    *)
(***************************************************************************)
\* the partial trees whose merge leaves wallet_object as it is
NoEdits == { partial \in Partials : mergeDeep(wallet_object, partial) = wallet_object }

\* C17: on an unlocked container with a wallet, a setState whose merged tree
\* equals wallet_object resolves at once and changes nothing: wallet_object
\* (last_modified included), local_status, the persisted fields and notify
\* keep their values, nothing is encrypted or sent, no subscriber is invoked
C17_NoOp ==
    private_key # NoKey /\ has(wallet_object, "created") =>
        \A partial \in NoEdits :
            LET b == Begin("setState")
                r == Settle(setState(b, partial))
            IN r = b /\ r.out = "ok" /\ r.fired = 0 /\ r.sent = <<>>

\* a setState that changed nothing has resolved in its call
C17_Witness ==
    /\ last.op = "setState" /\ last.status = "resolved" /\ last.pc = "call"
    /\ last.fired = 0 /\ last.sent = <<>>
    /\ private_key # NoKey
    /\ NoEdits # {}
    /\ notify

(***************************************************************************)
(* C18: saveWallet refused during setState                                 *)
(***************************************************************************)
\* the step handles the server's answer to the saveWallet of setState
\* tasks[i], and the answer is not OK
SaveRefused(i) == /\ Resumes(i, "saveWallet")
                  /\ tasks[i].op = "setState"
                  /\ tasks[i].resp.ok
                  /\ tasks[i].resp.statusText # "OK"

DispatchCycle ==
    LET r == notifySubscribers(St)
    IN IF notify
       THEN /\ r.notify = FALSE
            /\ r.fired = 1
            /\ r.invoked = << [callback \in subscribers |-> 1] >>
            /\ r.subscribers = subscribers \cup Registered(subscribers)
       ELSE r = St

LoginInFlight == \E i \in Slots : tasks[i] # NoTask /\ tasks[i].op = "login"

\* C20: whenever the container is locked and no login is in flight,
\* wallet_object is empty (or is still the tree the user put there before
\* logging in)
C20_EmptyWhenLocked ==
    private_key = NoKey /\ ~ LoginInFlight /\ wallet_object \notin PrePopulated
    => isEmpty(wallet_object)

(***************************************************************************)
(* C21: the chain of a login                                               *)
(***************************************************************************)
\* C21: when a login (no other call overlapping it) resolves, wallet_object
\* holds a chain_id that is not null, and when it fails with a chain
\* mismatch a locked container stays locked
C21_ChainKnown ==
    [][last' # last /\ last'.op = "login" /\ last'.alone =>
        /\ last'.status = "resolved"
            => getStr(wallet_object', "chain_id") \notin {null, undefined}
        /\ last'.err = "chain_mismatch" /\ private_key = NoKey
            => private_key' = NoKey]_vars

(***************************************************************************)
(* C22: keepRemoteCopy(false) on a synced container                        *)
(***************************************************************************)
\* unlocked, subscribed, a remote copy wanted and recorded as Not Modified
Synced == /\ private_key # NoKey /\ api /\ private_key \in ws_subs
          /\ remote_status = "Not Modified"
          /\ storage.remote_copy = Some(TRUE)
          /\ HasLocal
RemoteFields == {"remote_hash", "remote_created_date", "remote_updated_date"}

\* C22: on such a container keepRemoteCopy(false) sends deleteWallet once,
\* with the hash of the persisted ciphertext signed by the key, and nothing
\* else; when the server deletes, remote_hash, remote_created_date and
\* remote_updated_date are absent and encrypted_wallet and wallet_object are
\* unchanged; when it refuses, the three fields keep their values
C22_DeleteOnly ==
    Synced =>
        LET r == Settle(keepRemoteCopy(Begin("keepRemoteCopy"), FALSE, storage.remote_token))
            f == Finish(r, 0)
            copy == server[toPublicKey(private_key)]
        IN /\ r.out = "await" /\ r.cur.pc = "deleteWallet"
           /\ r.sent = << [name |-> "deleteWallet", arg |-> localHash(St)] >>
           /\ f.sent = r.sent
           /\ r.cur.resp.ok <=> copy # None /\ sha256(Val(copy).encrypted_data) = localHash(St)
           /\ f.out = IF r.cur.resp.ok THEN "ok" ELSE "fail"
           /\ f.out = "ok" => /\ \A x \in RemoteFields : f.storage[x] = None
                              /\ f.server[toPublicKey(private_key)] = None
           /\ f.out = "fail" => \A x \in RemoteFields : f.storage[x] = storage[x]
           /\ f.storage.encrypted_wallet = storage.encrypted_wallet
           /\ f.wallet_object = wallet_object

\* the server's copy was deleted by keepRemoteCopy(false)
C22_Witness ==
    /\ last.op = "keepRemoteCopy" /\ last.status = "resolved" /\ last.pc = "deleteWallet"
    /\ storage.remote_copy = Some(FALSE)
    /\ storage.remote_hash = None
    /\ HasLocal /\ private_key # NoKey
    /\ server[toPublicKey(private_key)] = None

(***************************************************************************)
(* C23: the server lost its copy                                           *)
(***************************************************************************)
\* tasks[i] is a fetch handler that found no copy on the server, has a local
\* ciphertext and a remote copy to keep, and called updateWallet: its
\* encryption ends in this step
PushesAnyways(i) ==
    /\ Resumes(i, "encrypt")
    /\ \E k \in DOMAIN tasks[i].stack : tasks[i].stack[k] = "NotModified"
    /\ tasks[i].data.remote_copy = Some(TRUE)
    /\ api

\* C23: such a handler uploads the local ciphertext with createWallet or
\* saveWallet, and remote_status is not "Not Modified" before the answer
C23_Recreated ==
    [][\A i \in Slots : PushesAnyways(i) =>
        /\ Uploads(last'.sent)
        /\ last'.status = "pending"
        /\ remote_status' # "Not Modified"]_vars

(***************************************************************************)
(* C24: the status sync expects                                            *)
(***************************************************************************)
\* no call and no handler is in flight
Quiet == \A i \in Slots : tasks[i] = NoTask

\* C24: no call made while nothing else is in flight runs sync on an
\* unlocked container with a transport and a fetch subscription of its key
\* while remote_status is neither "No Content" nor "Not Modified": the
\* assertion of sync never fails
C24_SyncExpects ==
    [][private_key # NoKey /\ Quiet
       => last'.err # "AssertionError Expecting No Content or Not Modified"]_vars

(***************************************************************************)
(* C25: the create path                                                    *)
(***************************************************************************)
\* the encryption of updateWallet in tasks[i] (a call that no other call
\* overlaps) ends in this step, online, with a remote copy wanted, a token
\* and no remote_hash
CreatePath(i) ==
    /\ Resumes(i, "encrypt")
    /\ tasks[i].alone
    /\ api
    /\ tasks[i].data.remote_copy = Some(TRUE)
    /\ hasToken(tasks[i].data.code)
    /\ storage.remote_hash = None

\* createWallet of tasks[i] is answered in this step and the call goes on
Created1(i) ==
    /\ Resumes(i, "createWallet")
    /\ last'.err = ""

\* C25: updateWallet takes the create path only with remote_status
\* "No Content"; after createWallet succeeded remote_hash is the hash of the
\* uploaded ciphertext, remote_created_date and remote_updated_date are the
\* answer's created, remote_token is cleared and remote_status is
\* "Not Modified"
C25_CreatePath ==
    [][\A i \in Slots :
        /\ CreatePath(i) => remote_status = "No Content"
        /\ Created1(i) =>
              /\ storage'.remote_hash = Some(tasks[i].data.local_hash)
              /\ storage'.remote_created_date = tasks[i].resp.created
              /\ storage'.remote_updated_date = tasks[i].resp.created
              /\ tasks[i].resp.created # None
              /\ ~ hasToken(storage'.remote_token)
              /\ remote_status' = "Not Modified"]_vars

(***************************************************************************)
(* C26: uploads only while a remote copy is wanted                         *)
(***************************************************************************)
\* the encryption of updateWallet in tasks[i] ends in this step with no
\* remote_token stored and the server known to hold no wallet
NothingToPush(i) ==
    /\ Resumes(i, "encrypt")
    /\ ~ hasToken(storage.remote_token)
    /\ remote_status = "No Content"

\* C26: whenever a step sends createWallet or saveWallet, a transport is open
\* and the stored remote_copy is true in that step; and an updateWallet
\* whose encryption ends with no remote_token and remote_status "No Content"
\* writes the local ciphertext and uploads nothing
C26_WantedOnly ==
    [][/\ Uploads(last'.sent) => api /\ storage.remote_copy = Some(TRUE)
       /\ \A i \in Slots : NothingToPush(i) =>
             /\ ~ Uploads(last'.sent)
             /\ storage'.encrypted_wallet # None]_vars

(***************************************************************************)
(* C27: a clean local_status                                               *)
(***************************************************************************)
\* the persisted ciphertext is one for the key and holds wallet_object
InSync ==
    LET encrypted_data == Buffer64(Val(storage.encrypted_wallet))
    IN /\ encrypted_data.to = toPublicKey(private_key)
       /\ decrypt(encrypted_data, private_key) = wallet_object

\* C27: whenever the container is unlocked, local_status is null and every
\* call and handler is over, a ciphertext is persisted and decrypts under
\* private_key to the current wallet_object
C27_CleanInSync ==
    private_key # NoKey /\ local_status = null /\ Quiet => HasLocal /\ InSync

(***************************************************************************)
(* C28: what "Not Modified" says                                           *)
(***************************************************************************)
\* C28: whenever remote_status is "Not Modified" and every call and handler
\* is over, remote_hash is present and is the base64 SHA-256 of the
\* persisted encrypted_wallet
C28_NotModified ==
    remote_status = "Not Modified" /\ Quiet
    => /\ storage.remote_hash # None
       /\ HasLocal
       /\ storage.remote_hash = LocalHash64

(***************************************************************************)
(* C29: an edit and a change of the server's copy                          *)
(***************************************************************************)
\* the tree holds the user's edit and the other device's change
HasBoth(tree) == has(tree, "j") /\ getStr(tree, "k") = "S"

\* the user logged in and edited once, another device saved a change, every
\* call and handler is over and no Conflict was reported
EditAndChange ==
    /\ Quiet
    /\ private_key # NoKey /\ api /\ storage.remote_copy = Some(TRUE)
    /\ nops = MaxOpsEdit - 2
    /\ nenv = 1 /\ server[toPublicKey(Key1)] # None
    /\ ~ declared /\ remote_status # "Conflict"

\* C29: after one edit and one change of the server's copy, in whatever
\* order their steps were taken, either a Conflict was reported or
\* wallet_object, the persisted ciphertext and the server's copy all hold
\* both the edit and the change
C29_NoLostUpdate ==
    EditAndChange =>
        /\ HasBoth(wallet_object)
        /\ HasLocal
        /\ HasBoth(decrypt(Buffer64(Val(storage.encrypted_wallet)), private_key))
        /\ HasBoth(Val(server[toPublicKey(Key1)]).encrypted_data.json)
====
